---- MODULE Spec2Model ----
(***************************************************************************)
(* A model of the SDL2 game window's input layer (src/src/window_sdl2.cpp):*)
(* pollEvents drains the SDL event queue and dispatches every event to a   *)
(* handler, the handlers keep the gamepad session count and the capture    *)
(* flag and call the engine's callbacks.                                   *)
(*                                                                         *)
(* The callbacks made while handling an event are recorded, in order, in   *)
(* the history variable calls; the events SDL_PollEvent has returned in    *)
(* the running pollEvents call are recorded in taken.                      *)
(***************************************************************************)
EXTENDS Integers, Sequences, FiniteSets, TLC

VARIABLES
    sdlInit,    \* the SDL library is initialised (initSDL done, SDL_Quit not yet)
    count,      \* gamepad.count
    captured,   \* SDL2GameWindow::captured
    queue,      \* SDL's event queue, oldest event first
    pc,         \* "idle", or "polling" inside the loop of pollEvents
    taken,      \* history: the events SDL_PollEvent returned in this call, each
                \* with gamepad.count as it was when the event was dispatched
                \* and the number of times a handler was run on the event
    argAtTake,  \* history: lastArg as it was when the latest event was dispatched
    atCall,     \* history: the queue as it was when pollEvents was called
    calls,      \* history: the callbacks made in this call, in order, each
                \* tagged with the index in taken of the event that caused it
    lastArg,    \* history: <<>> or <<b>>, b the last setCursorDisabled argument
    lastState   \* history: the connected value of the latest onGamepadState
                \* call, FALSE as long as there was none

vars ==
    <<sdlInit, count, captured, queue, pc, taken, argAtTake, atCall, calls,
      lastArg, lastState>>

----------------------------------------------------------------------------
(* Bounds of the model.                                                    *)

\* the longest queue, and the most events one pollEvents call takes
MaxQueue == 2
\* the most controllers counted as connected
MaxCount == 2
\* the longest queue of controller device events in SpecGamepad
MaxSession == 4
\* the greatest scancode of the key events of SpecScancode
MaxScancode == 300

----------------------------------------------------------------------------
(* SDL's enumerations, as far as the window uses them.                     *)

\* SDL_Scancode values (SDL2/SDL_scancode.h) of the scancodes getKeyMinecraft
\* names, and of three it does not name (RETURN, UP, F1).
SDL_SCANCODE ==
    [A |-> 4, Z |-> 29,
     N1 |-> 30, N2 |-> 31, N3 |-> 32, N4 |-> 33, N5 |-> 34,
     N6 |-> 35, N7 |-> 36, N8 |-> 37, N9 |-> 38, N0 |-> 39,
     RETURN |-> 40, ESCAPE |-> 41, BACKSPACE |-> 42, TAB |-> 43, SPACE |-> 44,
     MINUS |-> 45, EQUALS |-> 46, LEFTBRACKET |-> 47, RIGHTBRACKET |-> 48,
     BACKSLASH |-> 49, SEMICOLON |-> 51, COMMA |-> 54, PERIOD |-> 55,
     SLASH |-> 56, CAPSLOCK |-> 57, F1 |-> 58,
     INSERT |-> 73, HOME |-> 74, PAGEUP |-> 75, DELETE |-> 76, END |-> 77,
     PAGEDOWN |-> 78, RIGHT |-> 79, LEFT |-> 80, DOWN |-> 81, UP |-> 82,
     KP_MINUS |-> 86, KP_PLUS |-> 87,
     KP_1 |-> 89, KP_2 |-> 90, KP_3 |-> 91, KP_4 |-> 92, KP_5 |-> 93,
     KP_6 |-> 94, KP_7 |-> 95, KP_8 |-> 96, KP_9 |-> 97, KP_0 |-> 98,
     MENU |-> 118,
     LCTRL |-> 224, LSHIFT |-> 225, LALT |-> 226,
     RCTRL |-> 228, RSHIFT |-> 229, RALT |-> 230,
     AC_HOME |-> 269, AC_BACK |-> 270]

\* The KeyCode enumeration (key_mapping.h). The letters are A = 65 .. Z = 90,
\* which is what the offset 61 of getKeyMinecraft gives for SDL's A = 4 .. Z = 29.
KeyCode ==
    [UNKNOWN |-> 0, BACK |-> 4, BACKSPACE |-> 8, TAB |-> 9, ENTER |-> 13,
     LEFT_SHIFT |-> 16, LEFT_CTRL |-> 17, LEFT_ALT |-> 18, CAPS_LOCK |-> 20,
     ESCAPE |-> 27, SPACE |-> 32, PAGE_UP |-> 33, PAGE_DOWN |-> 34,
     END |-> 35, HOME |-> 36, LEFT |-> 37, UP |-> 38, RIGHT |-> 39, DOWN |-> 40,
     INSERT |-> 45, DELETE |-> 46,
     NUM_0 |-> 48, NUM_1 |-> 49, NUM_2 |-> 50, NUM_3 |-> 51, NUM_4 |-> 52,
     NUM_5 |-> 53, NUM_6 |-> 54, NUM_7 |-> 55, NUM_8 |-> 56, NUM_9 |-> 57,
     A |-> 65, Z |-> 90, MENU |-> 93,
     NUMPAD_0 |-> 96, NUMPAD_1 |-> 97, NUMPAD_2 |-> 98, NUMPAD_3 |-> 99,
     NUMPAD_4 |-> 100, NUMPAD_5 |-> 101, NUMPAD_6 |-> 102, NUMPAD_7 |-> 103,
     NUMPAD_8 |-> 104, NUMPAD_9 |-> 105,
     NUMPAD_ADD |-> 107, NUMPAD_SUBTRACT |-> 109,
     SEMICOLON |-> 186, EQUAL |-> 187, COMMA |-> 188, MINUS |-> 189,
     PERIOD |-> 190, SLASH |-> 191,
     LEFT_BRACKET |-> 219, BACKSLASH |-> 220, RIGHT_BRACKET |-> 221,
     RIGHT_SHIFT |-> 272, RIGHT_CTRL |-> 273, RIGHT_ALT |-> 274]

----------------------------------------------------------------------------
(* The scancode mapper.                                                    *)

\* the case range with its lower end one scancode too low
IsLetterScancode_Low(keyCode) ==
    keyCode >= SDL_SCANCODE.A - 1 /\ keyCode <= SDL_SCANCODE.Z

\* case SDL_SCANCODE_A ... SDL_SCANCODE_Z
IsLetterScancode(keyCode) ==
    keyCode >= SDL_SCANCODE.A /\ keyCode <= SDL_SCANCODE.Z

\* the letter's key code with the offset of the ASCII lower case letters
LetterKeyCode_Lower(keyCode) == keyCode + 93

\* the letters' key codes in the opposite order
LetterKeyCode_Reversed(keyCode) == 94 - keyCode

\* (KeyCode)(keyCode+61)
LetterKeyCode(keyCode) == keyCode + 61

getKeyMinecraft(keyCode) ==
    CASE keyCode = SDL_SCANCODE.N0 -> KeyCode.NUM_0
      [] keyCode = SDL_SCANCODE.N1 -> KeyCode.NUM_1
      [] keyCode = SDL_SCANCODE.N2 -> KeyCode.NUM_2
      [] keyCode = SDL_SCANCODE.N3 -> KeyCode.NUM_3
      [] keyCode = SDL_SCANCODE.N4 -> KeyCode.NUM_4
      [] keyCode = SDL_SCANCODE.N5 -> KeyCode.NUM_5
      [] keyCode = SDL_SCANCODE.N6 -> KeyCode.NUM_6
      [] keyCode = SDL_SCANCODE.N7 -> KeyCode.NUM_7
      [] keyCode = SDL_SCANCODE.N8 -> KeyCode.NUM_8
      [] keyCode = SDL_SCANCODE.N9 -> KeyCode.NUM_9
      [] IsLetterScancode(keyCode) -> LetterKeyCode(keyCode)
      [] keyCode = SDL_SCANCODE.BACKSLASH -> KeyCode.BACKSLASH
      [] keyCode = SDL_SCANCODE.AC_HOME -> KeyCode.HOME
      [] keyCode = SDL_SCANCODE.AC_BACK -> KeyCode.BACK
      [] keyCode = SDL_SCANCODE.BACKSPACE -> KeyCode.BACKSPACE
      [] keyCode = SDL_SCANCODE.CAPSLOCK -> KeyCode.CAPS_LOCK
      [] keyCode = SDL_SCANCODE.COMMA -> KeyCode.COMMA
      [] keyCode = SDL_SCANCODE.DELETE -> KeyCode.DELETE
      [] keyCode = SDL_SCANCODE.DOWN -> KeyCode.DOWN
      [] keyCode = SDL_SCANCODE.END -> KeyCode.END
      [] keyCode = SDL_SCANCODE.EQUALS -> KeyCode.EQUAL
      [] keyCode = SDL_SCANCODE.ESCAPE -> KeyCode.ESCAPE
      [] keyCode = SDL_SCANCODE.HOME -> KeyCode.HOME
      [] keyCode = SDL_SCANCODE.INSERT -> KeyCode.INSERT
      [] keyCode = SDL_SCANCODE.KP_0 -> KeyCode.NUMPAD_0
      [] keyCode = SDL_SCANCODE.KP_1 -> KeyCode.NUMPAD_1
      [] keyCode = SDL_SCANCODE.KP_2 -> KeyCode.NUMPAD_2
      [] keyCode = SDL_SCANCODE.KP_3 -> KeyCode.NUMPAD_3
      [] keyCode = SDL_SCANCODE.KP_4 -> KeyCode.NUMPAD_4
      [] keyCode = SDL_SCANCODE.KP_5 -> KeyCode.NUMPAD_5
      [] keyCode = SDL_SCANCODE.KP_6 -> KeyCode.NUMPAD_6
      [] keyCode = SDL_SCANCODE.KP_7 -> KeyCode.NUMPAD_7
      [] keyCode = SDL_SCANCODE.KP_8 -> KeyCode.NUMPAD_8
      [] keyCode = SDL_SCANCODE.KP_9 -> KeyCode.NUMPAD_9
      [] keyCode = SDL_SCANCODE.KP_MINUS -> KeyCode.NUMPAD_SUBTRACT
      [] keyCode = SDL_SCANCODE.KP_PLUS -> KeyCode.NUMPAD_ADD
      [] keyCode = SDL_SCANCODE.LALT -> KeyCode.LEFT_ALT
      [] keyCode = SDL_SCANCODE.LCTRL -> KeyCode.LEFT_CTRL
      [] keyCode = SDL_SCANCODE.LEFT -> KeyCode.LEFT
      [] keyCode = SDL_SCANCODE.LEFTBRACKET -> KeyCode.LEFT_BRACKET
      [] keyCode = SDL_SCANCODE.LSHIFT -> KeyCode.LEFT_SHIFT
      [] keyCode = SDL_SCANCODE.MENU -> KeyCode.MENU
      [] keyCode = SDL_SCANCODE.MINUS -> KeyCode.MINUS
      [] keyCode = SDL_SCANCODE.PAGEDOWN -> KeyCode.PAGE_DOWN
      [] keyCode = SDL_SCANCODE.PAGEUP -> KeyCode.PAGE_UP
      [] keyCode = SDL_SCANCODE.PERIOD -> KeyCode.PERIOD
      [] keyCode = SDL_SCANCODE.RALT -> KeyCode.RIGHT_ALT
      [] keyCode = SDL_SCANCODE.RCTRL -> KeyCode.RIGHT_CTRL
      [] keyCode = SDL_SCANCODE.RIGHT -> KeyCode.RIGHT
      [] keyCode = SDL_SCANCODE.RIGHTBRACKET -> KeyCode.RIGHT_BRACKET
      [] keyCode = SDL_SCANCODE.RSHIFT -> KeyCode.RIGHT_SHIFT
      [] keyCode = SDL_SCANCODE.SEMICOLON -> KeyCode.SEMICOLON
      [] keyCode = SDL_SCANCODE.SLASH -> KeyCode.SLASH
      [] keyCode = SDL_SCANCODE.SPACE -> KeyCode.SPACE
      [] keyCode = SDL_SCANCODE.TAB -> KeyCode.TAB
      [] OTHER -> KeyCode.UNKNOWN

----------------------------------------------------------------------------
(* The callbacks of the engine, as records of a call.                      *)

Call(fn, args) == [fn |-> fn, args |-> args]

\* std::wstring_convert<std::codecvt_utf8<char32_t>, char32_t>::to_bytes of one
\* code point: its UTF-8 encoding, as a sequence of bytes.
to_bytes(c) ==
    IF c < 128 THEN << c >>
    ELSE IF c < 2048 THEN << 192 + (c \div 64), 128 + (c % 64) >>
    ELSE IF c < 65536
         THEN << 224 + (c \div 4096), 128 + ((c \div 64) % 64), 128 + (c % 64) >>
         ELSE << 240 + (c \div 262144), 128 + ((c \div 4096) % 64),
                 128 + ((c \div 64) % 64), 128 + (c % 64) >>

----------------------------------------------------------------------------
(* The event handlers. Each is the sequence of callbacks the handler makes *)
(* (and, for the controller device handler, the new gamepad.count).        *)

\* handleControllerDeviceEvent without its test of gamepad.count < 1
handleControllerDeviceEvent_Unguarded(cnt, e) ==
    IF e.type = "SDL_CONTROLLERDEVICEADDED"
    THEN [count |-> cnt + 1,
          calls |-> IF cnt + 1 > 1 THEN << >>
                    ELSE << Call("onGamepadState", <<0, TRUE>>) >>]
    ELSE [count |-> cnt - 1,
          calls |-> IF cnt - 1 > 0 THEN << >>
                    ELSE << Call("onGamepadState", <<0, FALSE>>) >>]

\* handleControllerDeviceEvent reporting every connect and disconnect
handleControllerDeviceEvent_Every(cnt, e) ==
    IF e.type = "SDL_CONTROLLERDEVICEADDED"
    THEN [count |-> cnt + 1, calls |-> << Call("onGamepadState", <<0, TRUE>>) >>]
    ELSE IF cnt < 1
    THEN [count |-> cnt, calls |-> << >>]
    ELSE [count |-> cnt - 1, calls |-> << Call("onGamepadState", <<0, FALSE>>) >>]

\* handleControllerDeviceEvent reporting a disconnect it does not count
handleControllerDeviceEvent_Report(cnt, e) ==
    IF e.type = "SDL_CONTROLLERDEVICEADDED"
    THEN [count |-> cnt + 1,
          calls |-> IF cnt + 1 > 1 THEN << >>
                    ELSE << Call("onGamepadState", <<0, TRUE>>) >>]
    ELSE [count |-> IF cnt < 1 THEN cnt ELSE cnt - 1,
          calls |-> IF cnt > 1 THEN << >>
                    ELSE << Call("onGamepadState", <<0, FALSE>>) >>]

\* handleControllerDeviceEvent reporting the second connect as well
handleControllerDeviceEvent_Second(cnt, e) ==
    IF e.type = "SDL_CONTROLLERDEVICEADDED"
    THEN [count |-> cnt + 1,
          calls |-> IF cnt + 1 > 2 THEN << >>
                    ELSE << Call("onGamepadState", <<0, TRUE>>) >>]
    ELSE IF cnt < 1
    THEN [count |-> cnt, calls |-> << >>]
    ELSE [count |-> cnt - 1,
          calls |-> IF cnt - 1 > 0 THEN << >>
                    ELSE << Call("onGamepadState", <<0, FALSE>>) >>]

\* handleControllerDeviceEvent: e.opens is the outcome of SDL_GameControllerOpen
handleControllerDeviceEvent(cnt, e) ==
    IF e.type = "SDL_CONTROLLERDEVICEADDED"
    THEN LET c1 == cnt + 1
         IN  IF c1 > 1
             THEN [count |-> c1, calls |-> << >>]
             ELSE [count |-> c1, calls |-> << Call("onGamepadState", <<0, TRUE>>) >>]
    ELSE IF e.type = "SDL_CONTROLLERDEVICEREMOVED"
    THEN IF cnt < 1
         THEN [count |-> cnt, calls |-> << >>]
         ELSE LET c1 == cnt - 1
              IN  IF c1 > 0
                  THEN [count |-> c1, calls |-> << >>]
                  ELSE [count |-> c1,
                        calls |-> << Call("onGamepadState", <<0, FALSE>>) >>]
    ELSE [count |-> cnt, calls |-> << >>]

\* the switch of handleControllerAxisEvent with a default that does not return
GamepadAxisIdOf_NoReturn(axis) ==
    CASE axis = "SDL_CONTROLLER_AXIS_LEFTY" -> "LEFT_Y"
      [] axis = "SDL_CONTROLLER_AXIS_RIGHTX" -> "RIGHT_X"
      [] axis = "SDL_CONTROLLER_AXIS_RIGHTY" -> "RIGHT_Y"
      [] axis = "SDL_CONTROLLER_AXIS_TRIGGERLEFT" -> "LEFT_TRIGGER"
      [] axis = "SDL_CONTROLLER_AXIS_TRIGGERRIGHT" -> "RIGHT_TRIGGER"
      [] OTHER -> "LEFT_X"

\* the switch of handleControllerAxisEvent: the GamepadAxisId, "" when dropped
GamepadAxisIdOf(axis) ==
    CASE axis = "SDL_CONTROLLER_AXIS_LEFTX" -> "LEFT_X"
      [] axis = "SDL_CONTROLLER_AXIS_LEFTY" -> "LEFT_Y"
      [] axis = "SDL_CONTROLLER_AXIS_RIGHTX" -> "RIGHT_X"
      [] axis = "SDL_CONTROLLER_AXIS_RIGHTY" -> "RIGHT_Y"
      [] axis = "SDL_CONTROLLER_AXIS_TRIGGERLEFT" -> "LEFT_TRIGGER"
      [] axis = "SDL_CONTROLLER_AXIS_TRIGGERRIGHT" -> "RIGHT_TRIGGER"
      [] OTHER -> ""

\* the deflection divided by the greatest value of an axis, 32767
Deflection_ByMax(value) == [num |-> value, den |-> 32767]

\* (double)value / 32768, kept exact as a fraction
Deflection(value) == [num |-> value, den |-> 32768]

\* handleControllerAxisEvent with the controller instance as the slot
handleControllerAxisEvent_Which(e) ==
    IF GamepadAxisIdOf(e.axis) = ""
    THEN << >>
    ELSE << Call("onGamepadAxis",
                 <<e.which, GamepadAxisIdOf(e.axis), Deflection(e.value)>>) >>

handleControllerAxisEvent(e) ==
    IF GamepadAxisIdOf(e.axis) = ""
    THEN << >>
    ELSE << Call("onGamepadAxis",
                 <<0, GamepadAxisIdOf(e.axis), Deflection(e.value)>>) >>

\* the switch of handleControllerButtonEvent: the GamepadButtonId, "" when dropped
GamepadButtonIdOf(button) ==
    CASE button = "SDL_CONTROLLER_BUTTON_A" -> "A"
      [] button = "SDL_CONTROLLER_BUTTON_B" -> "B"
      [] button = "SDL_CONTROLLER_BUTTON_X" -> "X"
      [] button = "SDL_CONTROLLER_BUTTON_Y" -> "Y"
      [] button = "SDL_CONTROLLER_BUTTON_BACK" -> "BACK"
      [] button = "SDL_CONTROLLER_BUTTON_START" -> "START"
      [] button = "SDL_CONTROLLER_BUTTON_GUIDE" -> "GUIDE"
      [] button = "SDL_CONTROLLER_BUTTON_LEFTSTICK" -> "LEFT_STICK"
      [] button = "SDL_CONTROLLER_BUTTON_RIGHTSTICK" -> "RIGHT_STICK"
      [] button = "SDL_CONTROLLER_BUTTON_LEFTSHOULDER" -> "LB"
      [] button = "SDL_CONTROLLER_BUTTON_RIGHTSHOULDER" -> "RB"
      [] button = "SDL_CONTROLLER_BUTTON_DPAD_UP" -> "DPAD_UP"
      [] button = "SDL_CONTROLLER_BUTTON_DPAD_DOWN" -> "DPAD_DOWN"
      [] button = "SDL_CONTROLLER_BUTTON_DPAD_LEFT" -> "DPAD_LEFT"
      [] button = "SDL_CONTROLLER_BUTTON_DPAD_RIGHT" -> "DPAD_RIGHT"
      [] OTHER -> ""

handleControllerButtonEvent(e) ==
    IF GamepadButtonIdOf(e.button) = ""
    THEN << >>
    ELSE << Call("onGamepadButton",
                 <<0, GamepadButtonIdOf(e.button), e.state = "SDL_PRESSED">>) >>

\* handleMouseWheelEvent testing the vertical deflection first
handleMouseWheelEvent_VerticalFirst(e) ==
    IF e.y < 0 THEN << Call("onMouseScroll", <<0, 0, 0, -1>>) >>
    ELSE IF e.y > 0 THEN << Call("onMouseScroll", <<0, 0, 0, 1>>) >>
    ELSE IF e.x < 0 THEN << Call("onMouseScroll", <<e.x, e.y, -1, 0>>) >>
    ELSE IF e.x > 0 THEN << Call("onMouseScroll", <<e.x, e.y, 1, 0>>) >>
    ELSE << >>

handleMouseWheelEvent(e) ==
    IF e.x < 0 THEN << Call("onMouseScroll", <<e.x, e.y, -1, 0>>) >>
    ELSE IF e.x > 0 THEN << Call("onMouseScroll", <<e.x, e.y, 1, 0>>) >>
    ELSE IF e.y < 0 THEN << Call("onMouseScroll", <<0, 0, 0, -1>>) >>
    ELSE IF e.y > 0 THEN << Call("onMouseScroll", <<0, 0, 0, 1>>) >>
    ELSE << >>

handleMouseMotionEvent(cap, e) ==
    IF cap
    THEN << Call("onMouseRelativePosition", <<e.xrel, e.yrel>>) >>
    ELSE << Call("onMousePosition", <<e.x, e.y>>) >>

handleMouseClickEvent(e) ==
    << Call("onMouseButton",
            <<e.x, e.y, e.button,
              IF e.state = "SDL_PRESSED" THEN "PRESS" ELSE "RELEASE">>) >>

\* The inner switch (key) of handleKeyboardEvent. No case ends in a break, so
\* control enters at the key's label and runs through every statement below it.
KeyboardText(key) ==
    LET payloads == << <<8>>, <<127>>, <<10>>, <<27>>, to_bytes(key) >>
        entry == CASE key = KeyCode.BACKSPACE -> 1
                   [] key = KeyCode.DELETE -> 2
                   [] key = KeyCode.ENTER -> 3
                   [] key = KeyCode.LEFT -> 4
                   [] OTHER -> 5
    IN  [i \in 1 .. (6 - entry) |->
            Call("onKeyboardText", << payloads[entry + i - 1] >>)]

\* the handler with the state looked at before the repeat flag
handleKeyboardEvent_StateFirst(e) ==
    LET key == getKeyMinecraft(e.scancode)
    IN  IF e.state = "SDL_PRESSED"
        THEN KeyboardText(key) \o << Call("onKeyboard", <<key, "PRESS">>) >>
        ELSE IF e.repeat
        THEN << Call("onKeyboard", <<key, "REPEAT">>) >>
        ELSE IF e.state = "SDL_RELEASED"
        THEN << Call("onKeyboard", <<key, "RELEASE">>) >>
        ELSE << >>

handleKeyboardEvent(e) ==
    LET key == getKeyMinecraft(e.scancode)
    IN  IF e.repeat
        THEN << Call("onKeyboard", <<key, "REPEAT">>) >>
        ELSE IF e.state = "SDL_PRESSED"
        THEN KeyboardText(key) \o << Call("onKeyboard", <<key, "PRESS">>) >>
        ELSE IF e.state = "SDL_RELEASED"
        THEN << Call("onKeyboard", <<key, "RELEASE">>) >>
        ELSE << >>

----------------------------------------------------------------------------
(* The events the environment puts into SDL's queue.                       *)

\* controller connect events whose open succeeds or fails, and a disconnect
DeviceEvents ==
    { [type |-> "SDL_CONTROLLERDEVICEADDED", which |-> 0, opens |-> b] :
          b \in BOOLEAN }
    \cup { [type |-> "SDL_CONTROLLERDEVICEREMOVED", which |-> 0] }

AxisEvents ==
    { [type |-> "SDL_CONTROLLERAXISMOTION", which |-> 1,
       axis |-> "SDL_CONTROLLER_AXIS_LEFTX", value |-> -32768],
      [type |-> "SDL_CONTROLLERAXISMOTION", which |-> 0,
       axis |-> "SDL_CONTROLLER_AXIS_INVALID", value |-> 0] }

ButtonEvents ==
    { [type |-> "SDL_CONTROLLERBUTTONDOWN", which |-> 0,
       button |-> "SDL_CONTROLLER_BUTTON_A", state |-> "SDL_PRESSED"],
      [type |-> "SDL_CONTROLLERBUTTONUP", which |-> 1,
       button |-> "SDL_CONTROLLER_BUTTON_DPAD_RIGHT", state |-> "SDL_RELEASED"],
      [type |-> "SDL_CONTROLLERBUTTONDOWN", which |-> 0,
       button |-> "SDL_CONTROLLER_BUTTON_INVALID", state |-> "SDL_PRESSED"] }

\* every axis of SDL_GameControllerAxis, and SDL_CONTROLLER_AXIS_INVALID
ControllerAxes ==
    { "SDL_CONTROLLER_AXIS_LEFTX", "SDL_CONTROLLER_AXIS_LEFTY",
      "SDL_CONTROLLER_AXIS_RIGHTX", "SDL_CONTROLLER_AXIS_RIGHTY",
      "SDL_CONTROLLER_AXIS_TRIGGERLEFT", "SDL_CONTROLLER_AXIS_TRIGGERRIGHT",
      "SDL_CONTROLLER_AXIS_INVALID" }

\* values of the Sint16 field SDL_ControllerAxisEvent.value: its least value,
\* its greatest value, zero and a value next to zero
AxisValues == { -32768, -1, 0, 32767 }

ControllerAxisEvents ==
    { [type |-> "SDL_CONTROLLERAXISMOTION", which |-> 0, axis |-> a, value |-> v] :
          a \in ControllerAxes, v \in AxisValues }

\* every button of SDL_GameControllerButton the handler names, and
\* SDL_CONTROLLER_BUTTON_INVALID
ControllerButtons ==
    { "SDL_CONTROLLER_BUTTON_A", "SDL_CONTROLLER_BUTTON_B",
      "SDL_CONTROLLER_BUTTON_X", "SDL_CONTROLLER_BUTTON_Y",
      "SDL_CONTROLLER_BUTTON_BACK", "SDL_CONTROLLER_BUTTON_START",
      "SDL_CONTROLLER_BUTTON_GUIDE", "SDL_CONTROLLER_BUTTON_LEFTSTICK",
      "SDL_CONTROLLER_BUTTON_RIGHTSTICK", "SDL_CONTROLLER_BUTTON_LEFTSHOULDER",
      "SDL_CONTROLLER_BUTTON_RIGHTSHOULDER", "SDL_CONTROLLER_BUTTON_DPAD_UP",
      "SDL_CONTROLLER_BUTTON_DPAD_DOWN", "SDL_CONTROLLER_BUTTON_DPAD_LEFT",
      "SDL_CONTROLLER_BUTTON_DPAD_RIGHT", "SDL_CONTROLLER_BUTTON_INVALID" }

\* SDL sets state to SDL_PRESSED in a button-down and SDL_RELEASED in a
\* button-up event.
ControllerButtonEvents ==
    { [type |-> "SDL_CONTROLLERBUTTONDOWN", which |-> 0, button |-> b,
       state |-> "SDL_PRESSED"] : b \in ControllerButtons }
    \cup { [type |-> "SDL_CONTROLLERBUTTONUP", which |-> 0, button |-> b,
            state |-> "SDL_RELEASED"] : b \in ControllerButtons }

\* the events of SpecController: every button, and every axis at rest
ControllerEvents ==
    { e \in ControllerAxisEvents : e.value = 0 } \cup ControllerButtonEvents

MotionEvents ==
    { [type |-> "SDL_MOUSEMOTION", x |-> 5, y |-> 7, xrel |-> -1, yrel |-> 2],
      [type |-> "SDL_MOUSEMOTION", x |-> 0, y |-> 3, xrel |-> 4, yrel |-> 0] }

\* the deflections of the wheel events: every sign of x with every sign of y
WheelDeflections == { -3, -1, 0, 2 }

WheelEvents ==
    { [type |-> "SDL_MOUSEWHEEL", x |-> dx, y |-> dy] :
          dx \in WheelDeflections, dy \in WheelDeflections }

ClickEvents ==
    { [type |-> "SDL_MOUSEBUTTONDOWN", x |-> 5, y |-> 7, button |-> 1,
       state |-> "SDL_PRESSED"],
      [type |-> "SDL_MOUSEBUTTONUP", x |-> 5, y |-> 7, button |-> 1,
       state |-> "SDL_RELEASED"] }

MouseEvents == MotionEvents \cup WheelEvents \cup ClickEvents

\* the scancodes of the keyboard events: the four keys the text switch names
\* (RETURN is the scancode of the ENTER key), a letter, and a key without mapping
KeyScancodes ==
    { SDL_SCANCODE.BACKSPACE, SDL_SCANCODE.DELETE, SDL_SCANCODE.LEFT,
      SDL_SCANCODE.RETURN, SDL_SCANCODE.A, SDL_SCANCODE.F1 }

\* SDL sets state to SDL_PRESSED in a key-down and SDL_RELEASED in a key-up
\* event, and sets repeat only in a key-down event.
KeyEvents ==
    { [type |-> "SDL_KEYDOWN", scancode |-> c, state |-> "SDL_PRESSED",
       repeat |-> r] : c \in KeyScancodes, r \in BOOLEAN }
    \cup { [type |-> "SDL_KEYUP", scancode |-> c, state |-> "SDL_RELEASED",
            repeat |-> FALSE] : c \in KeyScancodes }

\* the scancodes of SpecScancode: every scancode SDL names lies in 0 .. 290
Scancodes == -1 .. MaxScancode

\* a key-down and a key-up event of every scancode of cs
ScancodeEventsOf(cs) ==
    { [type |-> "SDL_KEYDOWN", scancode |-> c, state |-> "SDL_PRESSED",
       repeat |-> FALSE] : c \in cs }
    \cup { [type |-> "SDL_KEYUP", scancode |-> c, state |-> "SDL_RELEASED",
            repeat |-> FALSE] : c \in cs }

ScancodeEvents == ScancodeEventsOf(Scancodes)

OtherEvents == { [type |-> "SDL_QUIT"], [type |-> "SDL_WINDOWEVENT"] }

\* The events of Spec: every type of event, a few events of each.
Events ==
    DeviceEvents
    \cup { e \in AxisEvents : e.axis = "SDL_CONTROLLER_AXIS_LEFTX" }
    \cup { e \in ButtonEvents : e.button # "SDL_CONTROLLER_BUTTON_DPAD_RIGHT" }
    \cup { e \in MotionEvents : e.x = 5 }
    \cup { e \in WheelEvents : e.x = -3 /\ e.y = 0 }
    \cup ClickEvents
    \cup { e \in KeyEvents : e.scancode = SDL_SCANCODE.A /\ ~e.repeat }
    \cup OtherEvents

----------------------------------------------------------------------------
(* The window.                                                             *)

\* SDL2GameWindow::SDL2GameWindow and initSDL
Init ==
    /\ sdlInit = TRUE
    /\ count = 0
    /\ captured = FALSE
    /\ queue = << >>
    /\ pc = "idle"
    /\ taken = << >>
    /\ argAtTake = << >>
    /\ atCall = << >>
    /\ calls = << >>
    /\ lastArg = << >>
    /\ lastState = FALSE

Added(q) == { i \in 1 .. Len(q) : q[i].type = "SDL_CONTROLLERDEVICEADDED" }

\* The environment: an input event arrives in SDL's queue (SDL_PollEvent pumps
\* the platform's events, so this also happens while pollEvents runs).
Enqueue(E, max) ==
    /\ sdlInit
    /\ \E e \in E :
          /\ Len(taken) + Len(queue) < max
          /\ e.type = "SDL_CONTROLLERDEVICEADDED"
                => count + Cardinality(Added(queue)) < MaxCount
          /\ queue' = Append(queue, e)
    /\ UNCHANGED <<sdlInit, count, captured, pc, taken, argAtTake, atCall, calls,
                   lastArg, lastState>>

EnqueueEvent == Enqueue(Events, MaxQueue)

EnqueueDeviceEvent == Enqueue(DeviceEvents, MaxSession)

EnqueueKeyEvent == Enqueue(KeyEvents, MaxQueue)

EnqueueMouseEvent == Enqueue(MouseEvents, MaxQueue)

EnqueueControllerEvent == Enqueue(ControllerEvents, MaxQueue)

\* a key event arrives whose scancode is the scancode of the events queued
\* and taken before it: one key, pressed and released again and again
EnqueueScancodeEvent ==
    LET held == { queue[k].scancode : k \in 1 .. Len(queue) }
                \cup { taken[k].event.scancode : k \in 1 .. Len(taken) }
    IN  Enqueue(ScancodeEventsOf(IF held = {} THEN Scancodes ELSE held),
                MaxQueue)

EnqueueAxisEvent == Enqueue(ControllerAxisEvents, MaxQueue)

\* setCursorDisabled passing its argument to SDL without storing it
setCursorDisabled_NotStored(disabled) ==
    /\ captured' = captured
    /\ lastArg' = << disabled >>
    /\ UNCHANGED <<sdlInit, count, queue, pc, taken, argAtTake, atCall, calls,
                   lastState>>

\* setCursorDisabled storing the opposite of its argument
setCursorDisabled_Negated(disabled) ==
    /\ captured' = ~disabled
    /\ lastArg' = << disabled >>
    /\ UNCHANGED <<sdlInit, count, queue, pc, taken, argAtTake, atCall, calls,
                   lastState>>

\* SDL2GameWindow::setCursorDisabled
setCursorDisabled(disabled) ==
    /\ captured' = disabled
    /\ lastArg' = << disabled >>
    /\ UNCHANGED <<sdlInit, count, queue, pc, taken, argAtTake, atCall, calls,
                   lastState>>

SetCursorDisabled == \E disabled \in BOOLEAN : setCursorDisabled(disabled)

\* pollEvents is called
PollEvents ==
    /\ pc = "idle"
    /\ pc' = "polling"
    /\ taken' = << >>
    /\ argAtTake' = << >>
    /\ calls' = << >>
    /\ atCall' = queue
    /\ UNCHANGED <<sdlInit, count, captured, queue, lastArg, lastState>>

\* the connected value of the latest onGamepadState call once the callbacks
\* cbs are made, prev being the value before them
ConnectedAfter(prev, cbs) ==
    LET st == SelectSeq(cbs, LAMBDA c : c.fn = "onGamepadState")
    IN  IF st = << >> THEN prev ELSE st[Len(st)].args[2]

Tag(i, cbs) ==
    [k \in 1 .. Len(cbs) |-> [ev |-> i, fn |-> cbs[k].fn, args |-> cbs[k].args]]

\* SDL_PollEvent returns 1 with the head of the queue, and the switch of
\* pollEvents runs a handler on it n times, which makes the callbacks cbs
Take(types, n, newCount, cbs) ==
    /\ pc = "polling"
    /\ sdlInit
    /\ queue # << >>
    /\ Head(queue).type \in types
    /\ queue' = Tail(queue)
    /\ taken' = Append(taken,
                       [event |-> Head(queue), count |-> count, runs |-> n])
    /\ argAtTake' = lastArg
    /\ count' = newCount
    /\ calls' = calls \o Tag(Len(taken) + 1, cbs)
    /\ lastState' = ConnectedAfter(lastState, cbs)
    /\ UNCHANGED <<sdlInit, captured, pc, atCall, lastArg>>

DispatchControllerDevice ==
    /\ queue # << >>
    /\ LET r == handleControllerDeviceEvent(count, Head(queue))
       IN  Take({"SDL_CONTROLLERDEVICEADDED", "SDL_CONTROLLERDEVICEREMOVED"},
                1, r.count, r.calls)

DispatchControllerAxis ==
    /\ queue # << >>
    /\ Take({"SDL_CONTROLLERAXISMOTION"}, 1, count,
            handleControllerAxisEvent(Head(queue)))

DispatchControllerButton ==
    /\ queue # << >>
    /\ Take({"SDL_CONTROLLERBUTTONDOWN", "SDL_CONTROLLERBUTTONUP"}, 1, count,
            handleControllerButtonEvent(Head(queue)))

DispatchMouseMotion ==
    /\ queue # << >>
    /\ Take({"SDL_MOUSEMOTION"}, 1, count,
            handleMouseMotionEvent(captured, Head(queue)))

DispatchMouseWheel ==
    /\ queue # << >>
    /\ Take({"SDL_MOUSEWHEEL"}, 1, count, handleMouseWheelEvent(Head(queue)))

DispatchMouseClick ==
    /\ queue # << >>
    /\ Take({"SDL_MOUSEBUTTONDOWN", "SDL_MOUSEBUTTONUP"}, 1, count,
            handleMouseClickEvent(Head(queue)))

\* case SDL_KEYDOWN has no break: the handler runs, and control falls into
\* case SDL_KEYUP, where it runs again
DispatchKeyDown ==
    /\ queue # << >>
    /\ Take({"SDL_KEYDOWN"}, 2, count,
            handleKeyboardEvent(Head(queue)) \o handleKeyboardEvent(Head(queue)))

DispatchKeyUp ==
    /\ queue # << >>
    /\ Take({"SDL_KEYUP"}, 1, count, handleKeyboardEvent(Head(queue)))

HandledTypes ==
    { "SDL_CONTROLLERDEVICEADDED", "SDL_CONTROLLERDEVICEREMOVED",
      "SDL_CONTROLLERAXISMOTION", "SDL_CONTROLLERBUTTONDOWN",
      "SDL_CONTROLLERBUTTONUP", "SDL_MOUSEMOTION", "SDL_MOUSEWHEEL",
      "SDL_MOUSEBUTTONDOWN", "SDL_MOUSEBUTTONUP", "SDL_KEYDOWN", "SDL_KEYUP",
      "SDL_QUIT" }

\* default: the event is taken and ignored
DispatchDefault ==
    /\ queue # << >>
    /\ Take({ Head(queue).type } \ HandledTypes, 0, count, << >>)

\* case SDL_QUIT: SDL_Quit shuts the event subsystem down, which discards the
\* events still queued; from then on SDL_PollEvent returns 0
DispatchQuit ==
    /\ pc = "polling"
    /\ sdlInit
    /\ queue # << >>
    /\ Head(queue).type = "SDL_QUIT"
    /\ sdlInit' = FALSE
    /\ queue' = << >>
    /\ taken' = Append(taken,
                       [event |-> Head(queue), count |-> count, runs |-> 0])
    /\ argAtTake' = lastArg
    /\ UNCHANGED <<count, captured, pc, atCall, calls, lastArg, lastState>>

\* SDL_PollEvent returns 0 and pollEvents returns
PollReturn ==
    /\ pc = "polling"
    /\ queue = << >> \/ ~sdlInit
    /\ pc' = "idle"
    /\ taken' = << >>
    /\ argAtTake' = << >>
    /\ calls' = << >>
    /\ atCall' = << >>
    /\ UNCHANGED <<sdlInit, count, captured, queue, lastArg, lastState>>

Dispatch ==
    \/ DispatchControllerDevice
    \/ DispatchControllerAxis
    \/ DispatchControllerButton
    \/ DispatchMouseMotion
    \/ DispatchMouseWheel
    \/ DispatchMouseClick
    \/ DispatchKeyDown
    \/ DispatchKeyUp
    \/ DispatchQuit
    \/ DispatchDefault

Next ==
    \/ EnqueueEvent
    \/ SetCursorDisabled
    \/ PollEvents
    \/ Dispatch
    \/ PollReturn

Spec == Init /\ [][Next]_vars

\* The gamepad session alone: only controller device events arrive, in
\* queues long enough for two connects followed by two disconnects.
NextGamepad ==
    \/ EnqueueDeviceEvent
    \/ PollEvents
    \/ DispatchControllerDevice
    \/ PollReturn

SpecGamepad == Init /\ [][NextGamepad]_vars

\* The keyboard alone: key-down, repeated key-down and key-up events of the
\* scancodes of KeyScancodes.
NextKeyboard ==
    \/ EnqueueKeyEvent
    \/ PollEvents
    \/ DispatchKeyDown
    \/ DispatchKeyUp
    \/ PollReturn

SpecKeyboard == Init /\ [][NextKeyboard]_vars

\* The mouse alone: motion, wheel and click events, and setCursorDisabled.
NextMouse ==
    \/ EnqueueMouseEvent
    \/ SetCursorDisabled
    \/ PollEvents
    \/ DispatchMouseMotion
    \/ DispatchMouseWheel
    \/ DispatchMouseClick
    \/ PollReturn

SpecMouse == Init /\ [][NextMouse]_vars

\* The scancode mapper: key events of every scancode of Scancodes, the events
\* of one call all of one scancode, and setCursorDisabled.
NextScancode ==
    \/ EnqueueScancodeEvent
    \/ SetCursorDisabled
    \/ PollEvents
    \/ DispatchKeyDown
    \/ DispatchKeyUp
    \/ PollReturn

SpecScancode == Init /\ [][NextScancode]_vars

\* The controller's axes alone: axis events of every axis with the values of
\* AxisValues.
NextAxis ==
    \/ EnqueueAxisEvent
    \/ PollEvents
    \/ DispatchControllerAxis
    \/ PollReturn

SpecAxis == Init /\ [][NextAxis]_vars

\* The controller's axes and buttons alone: an axis event of every axis,
\* button-down and button-up events of every button.
NextController ==
    \/ EnqueueControllerEvent
    \/ PollEvents
    \/ DispatchControllerAxis
    \/ DispatchControllerButton
    \/ PollReturn

SpecController == Init /\ [][NextController]_vars

----------------------------------------------------------------------------
(* What the histories say about the events of the running pollEvents call. *)

TakenEvents == [i \in 1 .. Len(taken) |-> taken[i].event]

\* gamepad.count before and after the i-th event of the call was dispatched
Before(i) == taken[i].count

After(i) == IF i < Len(taken) THEN taken[i + 1].count ELSE count

\* the callbacks the i-th event of the call caused, in order
CallsOf(i) ==
    LET cs == SelectSeq(calls, LAMBDA c : c.ev = i)
    IN  [k \in 1 .. Len(cs) |-> Call(cs[k].fn, cs[k].args)]

IsConnect(e) == e.type = "SDL_CONTROLLERDEVICEADDED"

IsDisconnect(e) == e.type = "SDL_CONTROLLERDEVICEREMOVED"

GamepadState(connected) == Call("onGamepadState", <<0, connected>>)

----------------------------------------------------------------------------
(* The gamepad session.                                                    *)

\* C1: gamepad.count is never negative, and every event changes it by at most
\* one: it goes up by one only on a connect event, down by one only on a
\* disconnect event, and stays as it is on an event of any other type.
C1_CountSteps ==
    /\ count >= 0
    /\ \A i \in 1 .. Len(taken) :
          /\ Before(i) >= 0
          /\ After(i) - Before(i) \in {-1, 0, 1}
          /\ After(i) = Before(i) + 1 => IsConnect(taken[i].event)
          /\ After(i) = Before(i) - 1 => IsDisconnect(taken[i].event)
          /\ ~IsConnect(taken[i].event) /\ ~IsDisconnect(taken[i].event)
                => After(i) = Before(i)

\* a call that took a connect (0 to 1) and then a disconnect (1 to 0)
C1_Witness ==
    /\ Len(taken) = 2
    /\ IsConnect(taken[1].event) /\ Before(1) = 0 /\ After(1) = 1
    /\ IsDisconnect(taken[2].event) /\ After(2) = 0

\* C2: of the connect events whose open succeeds and the disconnect events,
\* exactly the connects that take the count from 0 to 1 call
\* onGamepadState(0, true), exactly the disconnects that take it from 1 to 0
\* call onGamepadState(0, false), and the others call nothing; a call that
\* starts with nothing connected and takes connect, connect, disconnect,
\* disconnect makes two calls, (true) for the first and (false) for the fourth.
C2_StateCalls ==
    /\ \A i \in 1 .. Len(taken) :
          LET e == taken[i].event
          IN  /\ IsConnect(e) /\ e.opens =>
                    CallsOf(i) = IF Before(i) = 0 /\ After(i) = 1
                                 THEN << GamepadState(TRUE) >> ELSE << >>
              /\ IsDisconnect(e) =>
                    CallsOf(i) = IF Before(i) = 1 /\ After(i) = 0
                                 THEN << GamepadState(FALSE) >> ELSE << >>
    /\ ( /\ Len(taken) = 4
         /\ Before(1) = 0
         /\ \A i \in {1, 2} : IsConnect(taken[i].event) /\ taken[i].event.opens
         /\ \A i \in {3, 4} : IsDisconnect(taken[i].event) )
       => calls = << [ev |-> 1, fn |-> "onGamepadState", args |-> <<0, TRUE>>],
                     [ev |-> 4, fn |-> "onGamepadState", args |-> <<0, FALSE>>] >>

\* the session connect, connect, disconnect, disconnect has been dispatched
C2_Witness ==
    /\ Len(taken) = 4
    /\ Before(1) = 0
    /\ \A i \in {1, 2} : IsConnect(taken[i].event) /\ taken[i].event.opens
    /\ \A i \in {3, 4} : IsDisconnect(taken[i].event)
    /\ Len(calls) = 2

\* C3: a connect event whose controller open fails changes nothing:
\* gamepad.count stays as it was and onGamepadState(0, true) is not called.
C3_FailedOpenNoChange ==
    \A i \in 1 .. Len(taken) :
        IsConnect(taken[i].event) /\ ~taken[i].event.opens
            => After(i) = Before(i) /\ CallsOf(i) = << >>

\* C4: a disconnect event dispatched while gamepad.count is 0 leaves the count
\* at 0 and calls nothing, and the loop goes on: no queued event is lost, and
\* the events after it are dispatched as they are after any other event.
C4_SpuriousDisconnect ==
    \A i \in 1 .. Len(taken) :
        IsDisconnect(taken[i].event) /\ Before(i) = 0 =>
            /\ After(i) = 0
            /\ CallsOf(i) = << >>
            /\ i = Len(taken) =>
                  /\ pc = "polling"
                  /\ sdlInit
                  /\ Len(atCall) <= Len(taken) + Len(queue)
                  /\ atCall = SubSeq(TakenEvents \o queue, 1, Len(atCall))
            /\ i < Len(taken) /\ IsConnect(taken[i + 1].event) =>
                  After(i + 1) = 1 /\ CallsOf(i + 1) = << GamepadState(TRUE) >>

\* a disconnect with nothing connected was dispatched, and the connect queued
\* behind it was dispatched after it and reported
C4_Witness ==
    /\ Len(taken) = 2
    /\ IsDisconnect(taken[1].event) /\ Before(1) = 0
    /\ IsConnect(taken[2].event)
    /\ calls = << [ev |-> 2, fn |-> "onGamepadState", args |-> <<0, TRUE>>] >>
    /\ Len(atCall) = 2

----------------------------------------------------------------------------
(* The keyboard.                                                           *)

IsKey(e) == e.type \in {"SDL_KEYDOWN", "SDL_KEYUP"}

\* the event is classified as PRESS
IsPress(e) == IsKey(e) /\ ~e.repeat /\ e.state = "SDL_PRESSED"

CallsTo(fn, i) == SelectSeq(CallsOf(i), LAMBDA c : c.fn = fn)

\* the text the table of the text synthesis gives for a key
RowText(key) ==
    CASE key = KeyCode.BACKSPACE -> <<8>>
      [] key = KeyCode.DELETE -> <<127>>
      [] key = KeyCode.ENTER -> <<10>>
      [] key = KeyCode.LEFT -> <<27>>
      [] OTHER -> to_bytes(key)

\* C5: every keyboard event classified as PRESS causes exactly one
\* onKeyboardText call, whatever the key.
C5_OneTextPerPress ==
    \A i \in 1 .. Len(taken) :
        IsPress(taken[i].event) => Len(CallsTo("onKeyboardText", i)) = 1

\* C6: the text delivered for a PRESS is the text of the key's own row of the
\* table, and no press delivers the text of another row.
C6_TextOfOwnRow ==
    \A i \in 1 .. Len(taken) :
        IsPress(taken[i].event) =>
            LET texts == CallsTo("onKeyboardText", i)
            IN  /\ texts # << >>
                /\ \A k \in 1 .. Len(texts) :
                      texts[k].args
                          = << RowText(getKeyMinecraft(taken[i].event.scancode)) >>

\* C7: every keyboard event taken from the queue, key-down or key-up, causes
\* exactly one onKeyboard call.
C7_OneKeyboardCall ==
    \A i \in 1 .. Len(taken) :
        IsKey(taken[i].event) => Len(CallsTo("onKeyboard", i)) = 1

----------------------------------------------------------------------------
(* The mouse.                                                              *)

IsMotion(e) == e.type = "SDL_MOUSEMOTION"

IsWheel(e) == e.type = "SDL_MOUSEWHEEL"

\* C8: every motion event makes exactly one call: onMouseRelativePosition with
\* the deltas when the last setCursorDisabled argument before its dispatch was
\* true, onMousePosition with the position when it was false or
\* setCursorDisabled was never called.
C8_MotionRouting ==
    /\ \A i \in 1 .. Len(taken) :
          IsMotion(taken[i].event) =>
              /\ Len(CallsOf(i)) = 1
              /\ CallsOf(i)[1].fn \in {"onMousePosition", "onMouseRelativePosition"}
    /\ taken # << >> /\ IsMotion(taken[Len(taken)].event) =>
          LET e == taken[Len(taken)].event
          IN  CallsOf(Len(taken)) =
                  IF argAtTake = << TRUE >>
                  THEN << Call("onMouseRelativePosition", <<e.xrel, e.yrel>>) >>
                  ELSE << Call("onMousePosition", <<e.x, e.y>>) >>

\* two motion events of one call, setCursorDisabled(true) called between them:
\* the first is reported as a position, the second as a relative position
C8_Witness ==
    /\ Len(taken) = 2
    /\ IsMotion(taken[1].event) /\ IsMotion(taken[2].event)
    /\ CallsOf(1)[1].fn = "onMousePosition"
    /\ CallsOf(2)[1].fn = "onMouseRelativePosition"
    /\ argAtTake = << TRUE >>

Sign(n) == IF n < 0 THEN -1 ELSE IF n > 0 THEN 1 ELSE 0

\* C10: a wheel event causes at most one onMouseScroll call; its direction is
\* (sign(x), 0) when the horizontal deflection x is not 0, whatever the vertical
\* deflection y is, and (0, sign(y)) when x is 0 and y is not; a wheel event
\* with both deflections 0 causes no call.
C10_WheelDirection ==
    \A i \in 1 .. Len(taken) :
        IsWheel(taken[i].event) =>
            LET e == taken[i].event
                cs == CallsOf(i)
                direction == << cs[1].args[3], cs[1].args[4] >>
            IN  /\ Len(cs) <= 1
                /\ e.x # 0 =>
                      /\ Len(cs) = 1
                      /\ cs[1].fn = "onMouseScroll"
                      /\ direction = << Sign(e.x), 0 >>
                /\ e.x = 0 /\ e.y # 0 =>
                      /\ Len(cs) = 1
                      /\ cs[1].fn = "onMouseScroll"
                      /\ direction = << 0, Sign(e.y) >>
                /\ e.x = 0 /\ e.y = 0 => cs = << >>

\* a wheel event with both deflections, reported by its horizontal one, and a
\* wheel event with only a vertical deflection
C10_Witness ==
    /\ Len(taken) = 2
    /\ IsWheel(taken[1].event) /\ taken[1].event.x > 0 /\ taken[1].event.y < 0
    /\ CallsOf(1) = << Call("onMouseScroll",
                            <<taken[1].event.x, taken[1].event.y, 1, 0>>) >>
    /\ IsWheel(taken[2].event) /\ taken[2].event.x = 0 /\ taken[2].event.y < 0
    /\ CallsOf(2) = << Call("onMouseScroll", <<0, 0, 0, -1>>) >>

----------------------------------------------------------------------------
(* The dispatcher.                                                         *)

\* SDL_PollEvent is about to return 0, on which pollEvents returns
AboutToReturn == pc = "polling" /\ (queue = << >> \/ ~sdlInit)

\* C9: when pollEvents returns it has taken exactly the events that were
\* queued when it was called (unless more arrived meanwhile), has run a
\* handler on none of them more than once, and has made the callbacks in the
\* order of the events.
C9_DrainsQueueOnce ==
    AboutToReturn =>
        /\ Len(taken) <= Len(atCall) => TakenEvents = atCall
        /\ \A i \in 1 .. Len(taken) : taken[i].runs <= 1
        /\ \A k \in 1 .. Len(calls) - 1 : calls[k].ev <= calls[k + 1].ev

----------------------------------------------------------------------------
(* The controller's axes and buttons.                                      *)

IsAxis(e) == e.type = "SDL_CONTROLLERAXISMOTION"

IsButton(e) == e.type \in {"SDL_CONTROLLERBUTTONDOWN", "SDL_CONTROLLERBUTTONUP"}

RecognizedAxes == ControllerAxes \ { "SDL_CONTROLLER_AXIS_INVALID" }

RecognizedButtons == ControllerButtons \ { "SDL_CONTROLLER_BUTTON_INVALID" }

\* the fraction v is the number n / d
IsFraction(v, n, d) == v.den > 0 /\ v.num * d = n * v.den

C12_AxesAndButtons ==
    /\ Cardinality(RecognizedAxes) = 6
    /\ Cardinality(RecognizedButtons) = 15
    /\ \A i \in 1 .. Len(taken) :
          LET e == taken[i].event
              cs == CallsOf(i)
          IN  /\ IsAxis(e) /\ e.axis \notin RecognizedAxes => cs = << >>
              /\ IsButton(e) /\ e.button \notin RecognizedButtons => cs = << >>
              /\ IsAxis(e) /\ e.axis \in RecognizedAxes =>
                    /\ Len(cs) = 1
                    /\ cs[1].fn = "onGamepadAxis"
                    /\ cs[1].args[1] = 0
              /\ IsButton(e) /\ e.button \in RecognizedButtons =>
                    /\ Len(cs) = 1
                    /\ cs[1].fn = "onGamepadButton"
                    /\ cs[1].args[1] = 0
                    /\ cs[1].args[3] = (e.state = "SDL_PRESSED")

\* one call has dispatched an event on an axis that is not recognized, which
\* caused no callback, and then a release of a recognized button
C12_Witness ==
    /\ Len(taken) = 2
    /\ IsAxis(taken[1].event) /\ taken[1].event.axis \notin RecognizedAxes
    /\ IsButton(taken[2].event) /\ taken[2].event.state = "SDL_RELEASED"
    /\ calls = << [ev |-> 2, fn |-> "onGamepadButton",
                   args |-> <<0, "DPAD_LEFT", FALSE>>] >>

----------------------------------------------------------------------------
(* The scancode mapper.                                                    *)

\* the scancodes the explicit table of getKeyMinecraft names
TableScancodes ==
    { SDL_SCANCODE[n] : n \in DOMAIN SDL_SCANCODE \ {"A", "Z", "RETURN", "UP", "F1"} }

LetterScancodes == SDL_SCANCODE.A .. SDL_SCANCODE.Z

\* the values of the KeyCode enumeration
KeyCodes == { KeyCode[n] : n \in DOMAIN KeyCode } \cup (KeyCode.A .. KeyCode.Z)

\* the key codes the i-th event of the call was reported with
KeysOf(i) ==
    { CallsTo("onKeyboard", i)[k].args[1] :
          k \in 1 .. Len(CallsTo("onKeyboard", i)) }

\* C13: every scancode is mapped to exactly one KeyCode, the same one whatever
\* was dispatched or set before, and a scancode that the table does not name
\* and that is no letter is mapped to UNKNOWN.
C13_MapperTotalStateless ==
    /\ Cardinality(TableScancodes) = 54
    /\ \A i \in 1 .. Len(taken) :
          LET e == taken[i].event
          IN  IsKey(e) =>
                  /\ Cardinality(KeysOf(i)) = 1
                  /\ KeysOf(i) \subseteq KeyCodes
                  /\ e.scancode \notin TableScancodes \cup LetterScancodes
                        => KeysOf(i) = { KeyCode.UNKNOWN }
                  /\ \A j \in 1 .. Len(taken) :
                        IsKey(taken[j].event)
                        /\ taken[j].event.scancode = e.scancode
                            => KeysOf(j) = KeysOf(i)

\* two events of the scancode RETURN, which the table does not name, were
\* dispatched in one call, the second after setCursorDisabled(true), and both
\* were reported as UNKNOWN
C13_Witness ==
    /\ Len(taken) = 2
    /\ \A i \in {1, 2} :
          /\ IsKey(taken[i].event)
          /\ taken[i].event.scancode = SDL_SCANCODE.RETURN
          /\ KeysOf(i) = { KeyCode.UNKNOWN }
    /\ argAtTake = << TRUE >>

\* the scancodes of the digit keys and the key code of each
DigitKeyCode ==
    [c \in { SDL_SCANCODE.N0, SDL_SCANCODE.N1, SDL_SCANCODE.N2, SDL_SCANCODE.N3,
             SDL_SCANCODE.N4, SDL_SCANCODE.N5, SDL_SCANCODE.N6, SDL_SCANCODE.N7,
             SDL_SCANCODE.N8, SDL_SCANCODE.N9 } |->
        CASE c = SDL_SCANCODE.N0 -> KeyCode.NUM_0
          [] c = SDL_SCANCODE.N1 -> KeyCode.NUM_1
          [] c = SDL_SCANCODE.N2 -> KeyCode.NUM_2
          [] c = SDL_SCANCODE.N3 -> KeyCode.NUM_3
          [] c = SDL_SCANCODE.N4 -> KeyCode.NUM_4
          [] c = SDL_SCANCODE.N5 -> KeyCode.NUM_5
          [] c = SDL_SCANCODE.N6 -> KeyCode.NUM_6
          [] c = SDL_SCANCODE.N7 -> KeyCode.NUM_7
          [] c = SDL_SCANCODE.N8 -> KeyCode.NUM_8
          [] c = SDL_SCANCODE.N9 -> KeyCode.NUM_9]

\* C14: the key of digit d is reported as NUM_d, the ten NUM codes being ten
\* different codes; the key of a letter is reported as its scancode plus 61,
\* which puts A..Z in order on KeyCode.A .. KeyCode.Z; and no key that is not
\* a letter is reported with a code of that range.
C14_DigitsAndLetters ==
    /\ Cardinality(DOMAIN DigitKeyCode) = 10
    /\ Cardinality({ DigitKeyCode[c] : c \in DOMAIN DigitKeyCode }) = 10
    /\ Cardinality(LetterScancodes) = 26
    /\ \A i \in 1 .. Len(taken) :
          LET c == taken[i].event.scancode
          IN  IsKey(taken[i].event) =>
                  /\ c \in DOMAIN DigitKeyCode
                        => KeysOf(i) = { DigitKeyCode[c] }
                  /\ c \in LetterScancodes
                        => /\ KeysOf(i) = { c + 61 }
                           /\ KeysOf(i) = { KeyCode.A + (c - SDL_SCANCODE.A) }
                           /\ KeysOf(i) \subseteq KeyCode.A .. KeyCode.Z
                  /\ c \notin LetterScancodes
                        => KeysOf(i) \cap (KeyCode.A .. KeyCode.Z) = {}

\* the key Z was pressed and released: both events were reported with the
\* last code of the letters
C14_Witness ==
    /\ Len(taken) = 2
    /\ taken[1].event.type = "SDL_KEYDOWN"
    /\ taken[2].event.type = "SDL_KEYUP"
    /\ \A i \in {1, 2} :
          /\ taken[i].event.scancode = SDL_SCANCODE.Z
          /\ KeysOf(i) = { KeyCode.Z }

\* the scancodes getKeyMinecraft has a case for
MappedScancodes == TableScancodes \cup LetterScancodes

\* C15: the home key and the go-home key, two scancodes, are both reported
\* as HOME; and when the key dispatched last has a case in the mapper and is
\* reported with the code that the mapper gives to another scancode too, the
\* two are those two.
C15_HomeTwice ==
    /\ SDL_SCANCODE.HOME # SDL_SCANCODE.AC_HOME
    /\ taken # << >> /\ IsKey(taken[Len(taken)].event) =>
          LET c == taken[Len(taken)].event.scancode
              keys == KeysOf(Len(taken))
          IN  /\ c \in { SDL_SCANCODE.HOME, SDL_SCANCODE.AC_HOME }
                    => keys = { KeyCode.HOME }
              /\ c \in MappedScancodes
                    => \A d \in MappedScancodes \ {c} :
                           getKeyMinecraft(d) \in keys
                               => /\ { c, d } = { SDL_SCANCODE.HOME,
                                                  SDL_SCANCODE.AC_HOME }
                                  /\ keys = { KeyCode.HOME }

\* the go-home key was pressed and released, and both events were reported
\* with the code the mapper gives to the home key
C15_Witness ==
    /\ Len(taken) = 2
    /\ \A i \in {1, 2} :
          /\ IsKey(taken[i].event)
          /\ taken[i].event.scancode = SDL_SCANCODE.AC_HOME
          /\ KeysOf(i) = { getKeyMinecraft(SDL_SCANCODE.HOME) }
          /\ KeysOf(i) = { KeyCode.HOME }

\* the action the classification gives a key event
KeyActionOf(e) ==
    IF e.repeat THEN "REPEAT"
    ELSE IF e.state = "SDL_PRESSED" THEN "PRESS" ELSE "RELEASE"

\* C16: a key event is reported to onKeyboard, and with no other action than
\* REPEAT when its repeat flag is set, PRESS when it is not and the key is
\* pressed, RELEASE when it is not and the key is released; and an event
\* that is not a PRESS causes no onKeyboardText call.
C16_KeyAction ==
    \A i \in 1 .. Len(taken) :
        LET e == taken[i].event
        IN  IsKey(e) =>
                /\ CallsTo("onKeyboard", i) # << >>
                /\ \A k \in 1 .. Len(CallsTo("onKeyboard", i)) :
                      CallsTo("onKeyboard", i)[k].args[2] = KeyActionOf(e)
                /\ KeyActionOf(e) # "PRESS"
                      => CallsTo("onKeyboardText", i) = << >>

\* a repeat of the held BACKSPACE key, then its release: the first was
\* reported as REPEAT and the second as RELEASE, both without text
C16_Witness ==
    /\ Len(taken) = 2
    /\ \A i \in {1, 2} :
          /\ IsKey(taken[i].event)
          /\ taken[i].event.scancode = SDL_SCANCODE.BACKSPACE
          /\ CallsTo("onKeyboardText", i) = << >>
    /\ taken[1].event.repeat /\ taken[1].event.state = "SDL_PRESSED"
    /\ taken[2].event.state = "SDL_RELEASED"
    /\ CallsTo("onKeyboard", 1)[1].args = << KeyCode.BACKSPACE, "REPEAT" >>
    /\ CallsTo("onKeyboard", 2)[1].args = << KeyCode.BACKSPACE, "RELEASE" >>

----------------------------------------------------------------------------
(* The capture flag.                                                       *)

\* C17: captured is false as long as setCursorDisabled has not been called,
\* and afterwards it is the argument of the last call of setCursorDisabled,
\* whatever events pollEvents has dispatched since.
C17_CapturedFrame == captured = (lastArg = << TRUE >>)

\* the cursor was disabled before the call of pollEvents, which dispatched a
\* mouse motion and then the quit event, and captured is still true
C17_Witness ==
    /\ captured
    /\ argAtTake = << TRUE >>
    /\ lastArg = << TRUE >>
    /\ Len(taken) = 2
    /\ IsMotion(taken[1].event)
    /\ taken[2].event.type = "SDL_QUIT"
    /\ ~sdlInit

----------------------------------------------------------------------------
(* The gamepad session as the engine sees it.                              *)

\* the onGamepadState calls a step adds to the callbacks of the call
NewStateCalls ==
    SelectSeq(IF Len(calls') > Len(calls)
              THEN SubSeq(calls', Len(calls) + 1, Len(calls'))
              ELSE << >>,
              LAMBDA c : c.fn = "onGamepadState")

\* C18: at every moment the connected value of the latest onGamepadState call
\* (false when there was none yet) tells whether gamepad.count is above 0; and
\* every onGamepadState call is made with slot 0 and the opposite of the
\* value of the call before it, the first one with true.
C18_StateFollowsCount ==
    /\ [](lastState = (count > 0))
    /\ [][\A k \in 1 .. Len(NewStateCalls) :
             /\ NewStateCalls[k].args[1] = 0
             /\ NewStateCalls[k].args[2] =
                    IF k = 1 THEN ~lastState
                    ELSE ~NewStateCalls[k - 1].args[2]]_vars

\* one call took a connect, a disconnect, a connect whose open failed and
\* one more connect: the engine was told true, false, true, and two
\* controllers are counted
C18_Witness ==
    /\ Len(taken) = 4
    /\ Before(1) = 0
    /\ IsConnect(taken[1].event)
    /\ IsDisconnect(taken[2].event)
    /\ IsConnect(taken[3].event) /\ ~taken[3].event.opens
    /\ IsConnect(taken[4].event)
    /\ [k \in 1 .. Len(calls) |-> calls[k].args] =
           << <<0, TRUE>>, <<0, FALSE>>, <<0, TRUE>> >>
    /\ count = 2
    /\ lastState

\* C19: whatever gamepad.count is when it is dispatched, and whichever
\* controller instance it names, an event of a recognized axis causes one
\* onGamepadAxis call and an event of a recognized button one
\* onGamepadButton call, both with slot 0; and these events, like the mouse,
\* keyboard, quit and window events, leave gamepad.count as it was.
C19_SlotZeroAnyCount ==
    \A i \in 1 .. Len(taken) :
        LET e == taken[i].event
            cs == CallsOf(i)
        IN  /\ ~IsConnect(e) /\ ~IsDisconnect(e) => After(i) = Before(i)
            /\ IsAxis(e) /\ e.axis \in RecognizedAxes =>
                  /\ e.which \in {0, 1}
                  /\ [k \in 1 .. Len(cs) |-> <<cs[k].fn, cs[k].args[1]>>] =
                         << <<"onGamepadAxis", 0>> >>
            /\ IsButton(e) /\ e.button \in RecognizedButtons =>
                  /\ e.which \in {0, 1}
                  /\ [k \in 1 .. Len(cs) |-> <<cs[k].fn, cs[k].args[1]>>] =
                         << <<"onGamepadButton", 0>> >>

\* the last controller was disconnected, and then an axis event of the
\* controller instance 1 was dispatched with nothing connected: it was
\* reported for slot 0, and gamepad.count is still 0
C19_Witness ==
    /\ Len(taken) = 2
    /\ IsDisconnect(taken[1].event) /\ Before(1) = 1 /\ After(1) = 0
    /\ IsAxis(taken[2].event) /\ taken[2].event.which = 1
    /\ CallsOf(2) = << Call("onGamepadAxis",
                            <<0, "LEFT_X", Deflection(-32768)>>) >>
    /\ count = 0
    /\ ~lastState

====
